---- MODULE Spec2Model ----
(***************************************************************************)
(* Model of tower-http's set_header middleware with composable header      *)
(* rules: MakeHeaderValue / MakeFullHeader / MakeHeaders (mod.rs), the     *)
(* Response adapter SetResponseHeader with its ResponseFuture              *)
(* (multiple_response_headers.rs) and the Request adapter SetRequestHeader *)
(* (multiple_request_headers.rs).                                          *)
(***************************************************************************)
EXTENDS Integers, Sequences, FiniteSets, TLC

\* ------------------------------------------------------------------ bounds
\* Longest chain the builder operations may compose.
MaxRules == 4
\* Number of ResponseFuture slots (calls in flight at the same time).
MaxCalls == 1
\* Longest chain composed where several calls are in flight.
MaxSharedRules == 2

\* ------------------------------------------------------- header vocabulary
CONTENT_TYPE == "content-type"
CONTENT_LENGTH == "content-length"
ACCEPT_CHARSET == "accept-charset"
HeaderNames == {CONTENT_TYPE, CONTENT_LENGTH, ACCEPT_CHARSET}

\* Option<HeaderValue>::None
None == "None"

\* InsertHeaderMode
Override == "Override"
Append_ == "Append"
IfNotPresent == "IfNotPresent"
InsertHeaderMode == {Override, Append_, IfNotPresent}

\* An empty HeaderMap: every name has zero values.
EmptyHeaderMap == [n \in HeaderNames |-> <<>>]

\* ------------------------------------------------------- value producers
\* impl MakeHeaderValue for HeaderValue: a constant value.
ConstValue(v) == [type |-> "HeaderValue", value |-> v]
\* impl MakeHeaderValue for Option<HeaderValue>: a constant option.
OptionValue(v) == [type |-> "Option", value |-> v]
\* impl MakeHeaderValue for F: a closure over the message; the sample closure
\* copies the first value of header `value` of the message, if there is one.
CopyFrom(n) == [type |-> "FnMut", value |-> n]

\* impl MakeHeaderValue for F with a closure that owns state: a counter
\* closure, which counts its calls and yields the count before the call.
Counter(n) == [type |-> "Counter", count |-> n]

\* impl MakeHeaderValue for F with a closure over its own state and the
\* message: it counts its calls and yields the count before the call when
\* the message has a value for header `value`, and no value otherwise.
CountIfHas(name, n) == [type |-> "CounterIf", value |-> name, count |-> n]

\* MakeHeaderValue::make_header_value, one arm per impl: the value returned.
make_header_value(make, message) ==
    CASE make.type = "HeaderValue" -> make.value
      [] make.type = "Option" -> make.value
      [] make.type = "FnMut" ->
            IF Len(message.headers[make.value]) > 0
            THEN Head(message.headers[make.value])
            ELSE None
      [] make.type = "Counter" -> ToString(make.count)
      [] make.type = "CounterIf" ->
            IF Len(message.headers[make.value]) > 0
            THEN ToString(make.count)
            ELSE None

\* An Option<HeaderValue> producer that hands its value out with take()
\* instead of clone(): it is None after the first call.
make_header_value_take(make, message) ==
    CASE make.type = "Option" -> [make EXCEPT !.value = None]
      [] make.type = "Counter" -> [make EXCEPT !.count = @ + 1]
      [] OTHER -> make

\* MakeHeaderValue::make_header_value takes &mut self: the producer after the
\* call. The constant producers clone their value and stay as they are, the
\* sample closure reads the message only, the counter closure counts.
make_header_value_self(make, message) ==
    CASE make.type = "Counter" -> [make EXCEPT !.count = @ + 1]
      [] make.type = "CounterIf" -> [make EXCEPT !.count = @ + 1]
      [] OTHER -> make

\* ------------------------------------------------------------ header rules
\* PreparedHeader { name, value, mode }
PreparedHeader(name, value, mode) == [name |-> name, value |-> value, mode |-> mode]

\* ToMakeHeaders { header_name, mode, make }
ToMakeHeaders(header_name, mode, make) ==
    [kind |-> "ToMakeHeaders", header_name |-> header_name, mode |-> mode, make |-> make]

\* A custom rule: a closure Fn(&T) -> PreparedHeader that builds the
\* PreparedHeader itself from a name, a mode and a value computation.
CustomFn(header_name, mode, make) ==
    [kind |-> "Fn", header_name |-> header_name, mode |-> mode, make |-> make]

\* MakeFullHeader::make_full_header, for ToMakeHeaders and for closures.
make_full_header(rule, message) ==
    PreparedHeader(rule.header_name, make_header_value(rule.make, message), rule.mode)

\* make_full_header that looks at the message first, as InsertHeaderMode::apply
\* does: an IfNotPresent rule whose header is present does not call its
\* producer.
make_full_header_self_lazy(rule, message) ==
    IF rule.mode = IfNotPresent /\ Len(message.headers[rule.header_name]) > 0
    THEN rule
    ELSE [rule EXCEPT !.make = make_header_value_self(@, message)]

\* make_full_header takes &mut self: the rule after the call.
make_full_header_self(rule, message) ==
    [rule EXCEPT !.make = make_header_value_self(@, message)]

\* ------------------------------------------------------------- rule chains
\* NoopHeaders: the empty chain.
NoopHeaders == [kind |-> "NoopHeaders"]

\* MakeFullHeader::and: And { left: self, right: other }
And(left, right) == [kind |-> "And", left |-> left, right |-> right]

\* EmptyMakeHeaders::new: a chain of the one rule `make`.
EmptyMakeHeaders(make) == [kind |-> "EmptyMakeHeaders", make |-> make]

RECURSIVE make_headers_front(_, _)
\* make_headers with the head's mutation put before the tail's mutations.
make_headers_front(chain, message) ==
    IF chain.kind = "NoopHeaders"
    THEN <<>>
    ELSE <<make_full_header(chain.left, message)>>
             \o make_headers_front(chain.right, message)

\* make_headers that returns the head's mutation only, as EmptyMakeHeaders
\* does, and leaves the tail out.
make_headers_head_only(chain, message) ==
    IF chain.kind = "NoopHeaders"
    THEN <<>>
    ELSE <<make_full_header(chain.left, message)>>

RECURSIVE make_headers_skip_none(_, _)
\* make_headers that pushes a rule's mutation only when it has a value.
make_headers_skip_none(chain, message) ==
    IF chain.kind = "NoopHeaders"
    THEN <<>>
    ELSE IF chain.kind = "EmptyMakeHeaders"
    THEN <<make_full_header(chain.make, message)>>
    ELSE LET all == make_headers_skip_none(chain.right, message)
             h == make_full_header(chain.left, message)
         IN  IF h.value = None THEN all ELSE Append(all, h)

RECURSIVE make_headers_noop_default(_, _)
\* make_headers whose empty chain returns one valueless mutation instead of
\* the empty Vec.
make_headers_noop_default(chain, message) ==
    IF chain.kind = "NoopHeaders"
    THEN <<PreparedHeader(CONTENT_TYPE, None, Override)>>
    ELSE IF chain.kind = "EmptyMakeHeaders"
    THEN <<make_full_header(chain.make, message)>>
    ELSE Append(make_headers_noop_default(chain.right, message),
                make_full_header(chain.left, message))

RECURSIVE make_headers(_, _)
\* MakeHeaders::make_headers for NoopHeaders, EmptyMakeHeaders and And: the
\* Vec returned.
make_headers(chain, message) ==
    IF chain.kind = "NoopHeaders"
    THEN <<>>
    ELSE IF chain.kind = "EmptyMakeHeaders"
    THEN <<make_full_header(chain.make, message)>>
    ELSE Append(make_headers(chain.right, message),
                make_full_header(chain.left, message))

RECURSIVE make_headers_self(_, _)
\* make_headers takes &mut self: the chain after the call, every rule of it
\* having been evaluated once.
make_headers_self(chain, message) ==
    IF chain.kind = "NoopHeaders"
    THEN chain
    ELSE IF chain.kind = "EmptyMakeHeaders"
    THEN [chain EXCEPT !.make = make_full_header_self(@, message)]
    ELSE [chain EXCEPT !.right = make_headers_self(@, message),
                       !.left = make_full_header_self(@, message)]

RECURSIVE ChainLen(_)
\* Number of rules of a chain.
ChainLen(chain) ==
    IF chain.kind = "NoopHeaders" THEN 0
    ELSE IF chain.kind = "EmptyMakeHeaders" THEN 1
    ELSE 1 + ChainLen(chain.right)

\* ----------------------------------------------------------------- applier
\* apply_prepared whose Override arm calls HeaderMap::append.
apply_prepared_override_appends(mode, header_name, target, header_value) ==
    CASE mode = Override ->
            [target EXCEPT !.headers[header_name] = Append(@, header_value)]
      [] mode = IfNotPresent ->
            IF Len(target.headers[header_name]) = 0
            THEN [target EXCEPT !.headers[header_name] = <<header_value>>]
            ELSE target
      [] mode = Append_ ->
            [target EXCEPT !.headers[header_name] = Append(@, header_value)]

\* apply_prepared whose Append arm puts the value before the existing ones.
apply_prepared_append_front(mode, header_name, target, header_value) ==
    CASE mode = Override ->
            [target EXCEPT !.headers[header_name] = <<header_value>>]
      [] mode = IfNotPresent ->
            IF Len(target.headers[header_name]) = 0
            THEN [target EXCEPT !.headers[header_name] = <<header_value>>]
            ELSE target
      [] mode = Append_ ->
            [target EXCEPT !.headers[header_name] = <<header_value>> \o @]

\* apply_prepared whose IfNotPresent arm inserts without the contains_key
\* test.
apply_prepared_always_insert(mode, header_name, target, header_value) ==
    CASE mode = Override ->
            [target EXCEPT !.headers[header_name] = <<header_value>>]
      [] mode = IfNotPresent ->
            [target EXCEPT !.headers[header_name] = <<header_value>>]
      [] mode = Append_ ->
            [target EXCEPT !.headers[header_name] = Append(@, header_value)]

\* apply_prepared whose Override arm clears the HeaderMap before it inserts.
apply_prepared_override_clears(mode, header_name, target, header_value) ==
    CASE mode = Override ->
            [target EXCEPT !.headers =
                [EmptyHeaderMap EXCEPT ![header_name] = <<header_value>>]]
      [] mode = IfNotPresent ->
            IF Len(target.headers[header_name]) = 0
            THEN [target EXCEPT !.headers[header_name] = <<header_value>>]
            ELSE target
      [] mode = Append_ ->
            [target EXCEPT !.headers[header_name] = Append(@, header_value)]

\* InsertHeaderMode::apply_prepared on a message's HeaderMap:
\* HeaderMap::insert replaces all values of the name by the one value,
\* HeaderMap::append adds the value after the existing ones.
apply_prepared(mode, header_name, target, header_value) ==
    CASE mode = Override ->
            [target EXCEPT !.headers[header_name] = <<header_value>>]
      [] mode = IfNotPresent ->
            IF Len(target.headers[header_name]) = 0
            THEN [target EXCEPT !.headers[header_name] = <<header_value>>]
            ELSE target
      [] mode = Append_ ->
            [target EXCEPT !.headers[header_name] = Append(@, header_value)]

\* A turn of the loop in which an Override with no value removes the header.
ApplyHeader_none_removes(res, header) ==
    IF header.value # None
    THEN apply_prepared(header.mode, header.name, res, header.value)
    ELSE IF header.mode = Override
    THEN [res EXCEPT !.headers[header.name] = <<>>]
    ELSE res

\* One turn of the loop of ResponseFuture::poll: a header with no value is
\* skipped.
ApplyHeader(res, header) ==
    IF header.value # None
    THEN apply_prepared(header.mode, header.name, res, header.value)
    ELSE res

RECURSIVE ApplyTraceOrig(_, _, _)
\* The loop with the presence test of IfNotPresent made on the response as
\* the inner handler produced it (orig), not on the response being mutated.
ApplyTraceOrig(orig, res, headers) ==
    IF headers = <<>>
    THEN <<res>>
    ELSE LET h == Head(headers)
             next == IF h.value = None THEN res
                     ELSE IF h.mode = IfNotPresent
                     THEN IF Len(orig.headers[h.name]) = 0
                          THEN [res EXCEPT !.headers[h.name] = <<h.value>>]
                          ELSE res
                     ELSE apply_prepared(h.mode, h.name, res, h.value)
         IN  <<res>> \o ApplyTraceOrig(orig, next, Tail(headers))

ApplyTrace_stale(res, headers) == ApplyTraceOrig(res, res, headers)

RECURSIVE ApplyTrace(_, _)
\* The loop `for header in headers` of ResponseFuture::poll, as the sequence
\* of the response's states: before the loop, then after each turn.
ApplyTrace(res, headers) ==
    IF headers = <<>>
    THEN <<res>>
    ELSE <<res>> \o ApplyTrace(ApplyHeader(res, Head(headers)), Tail(headers))

\* ---------------------------------------------------------- sample inputs
Response(ct, cl, ac, body) ==
    [headers |-> [n \in HeaderNames |->
                    CASE n = CONTENT_TYPE -> ct
                      [] n = CONTENT_LENGTH -> cl
                      [] n = ACCEPT_CHARSET -> ac],
     body |-> body]

\* The inner response of tests::test_composing_headers.
TestResponse == Response(<<"good-content">>, <<"555">>, <<>>, "b1")
\* Responses the inner handler may produce.
InnerResponses ==
    { TestResponse,
      Response(<<>>, <<>>, <<>>, "b2"),
      Response(<<>>, <<"1", "2">>, <<"ascii">>, "b3") }
\* Errors the inner handler may fail with.
InnerErrors == { [error |-> "e1"], [error |-> "e2"] }

\* (header_name, make) arguments given to the builder operations.
OverridingArgs ==
    { <<CONTENT_TYPE, ConstValue("text/html")>>,
      <<CONTENT_LENGTH, CopyFrom(ACCEPT_CHARSET)>> }
AppendingArgs ==
    { <<CONTENT_LENGTH, ConstValue("abc")>>,
      <<CONTENT_TYPE, CopyFrom(CONTENT_LENGTH)>> }
IfNotPresentArgs ==
    { <<CONTENT_TYPE, ConstValue("111")>>,
      <<ACCEPT_CHARSET, OptionValue(None)>> }
\* The closure `custom` of tests::test_composing_headers.
TestCustom == CustomFn(ACCEPT_CHARSET, IfNotPresent, OptionValue("utf8"))
CustomArgs == { TestCustom }

\* ------------------------------------------------------------------- state
VARIABLES
    make,       \* SetResponseHeader.make: the adapter's Rule Chain
    attached,   \* history: the rules given to the builder operations, in call order
    fut,        \* the ResponseFutures returned by SetResponseHeader::call
    rqSvc,      \* the SetRequestHeader adapter
    rqNew,      \* history: header_name and mode given to its constructor
    rqCall,     \* history: the request last given to SetRequestHeader::call
    rqInner,    \* the request the Request adapter's inner handler received
    layer,      \* the SetManyResponseHeadersLayer
    ready,      \* history: the last poll_ready of the Response adapter
    rqReady     \* history: the last poll_ready of the Request adapter

respVars == <<make, attached, fut>>
reqVars == <<rqSvc, rqNew, rqCall, rqInner>>
auxVars == <<layer, ready, rqReady>>
vars == <<make, attached, fut, rqSvc, rqNew, rqCall, rqInner, layer, ready, rqReady>>

Calls == 1..MaxCalls

\* What polling the inner future may return.
PollPending == [tag |-> "Pending"]
PollOk(res) == [tag |-> "Ok", val |-> res]
PollErr(e) == [tag |-> "Err", val |-> e]
InnerPolls ==
    {PollPending} \cup {PollOk(r) : r \in InnerResponses}
                  \cup {PollErr(e) : e \in InnerErrors}

\* A slot with no ResponseFuture in it.
NoFuture ==
    [state |-> "None", make |-> NoopHeaders, inner |-> PollPending,
     out |-> PollPending, headers |-> <<>>, trace |-> <<>>, evals |-> 0]

\* A ResponseFuture that shares the chain with the futures before it instead
\* of holding a clone of the adapter's: it starts from the chain as a
\* completed future has left it.
ResponseFuture_shared(m) ==
    LET done == {d \in DOMAIN fut : fut[d].state = "Done"}
    IN  [NoFuture EXCEPT !.state = "Pending",
                         !.make = IF done = {} THEN m
                                  ELSE fut[CHOOSE d \in done : TRUE].make]

\* ResponseFuture { future, make } as SetResponseHeader::call builds it.
ResponseFuture(m) == [NoFuture EXCEPT !.state = "Pending", !.make = m]

\* poll that returns the inner response as it is: the rules are evaluated but
\* the loop applying them is missing (as in SetRequestHeader::call).
poll_unmutated(this, inner) ==
    IF inner.tag = "Pending"
    THEN this
    ELSE IF inner.tag = "Err"
    THEN [this EXCEPT !.state = "Done", !.inner = inner, !.out = inner]
    ELSE LET res == inner.val
             headers == make_headers(this.make, res)
         IN  [this EXCEPT !.state = "Done", !.inner = inner,
                          !.out = PollOk(res),
                          !.headers = headers, !.trace = <<res>>,
                          !.evals = @ + 1]

\* poll that evaluates the chain before it looks at the inner result: on an
\* error the rules have run, against an empty response.
poll_eval_on_error(this, inner) ==
    IF inner.tag = "Pending"
    THEN this
    ELSE LET res == IF inner.tag = "Err"
                    THEN [headers |-> EmptyHeaderMap, body |-> "none"]
                    ELSE inner.val
             headers == make_headers(this.make, res)
             trace == ApplyTrace(res, headers)
         IN  [this EXCEPT !.state = "Done", !.inner = inner,
                          !.out = IF inner.tag = "Err" THEN inner
                                  ELSE PollOk(trace[Len(trace)]),
                          !.headers = headers,
                          !.trace = IF inner.tag = "Err" THEN <<>> ELSE trace,
                          !.evals = @ + 1]

\* poll that evaluates the chain on every poll, also while the inner future
\* is pending.
poll_eval_while_pending(this, inner) ==
    IF inner.tag = "Pending"
    THEN [this EXCEPT !.evals = @ + 1]
    ELSE IF inner.tag = "Err"
    THEN [this EXCEPT !.state = "Done", !.inner = inner, !.out = inner]
    ELSE LET res == inner.val
             headers == make_headers(this.make, res)
             trace == ApplyTrace(res, headers)
         IN  [this EXCEPT !.state = "Done", !.inner = inner,
                          !.out = PollOk(trace[Len(trace)]),
                          !.make = make_headers_self(@, res),
                          !.headers = headers, !.trace = trace,
                          !.evals = @ + 1]

RECURSIVE ChainRules(_)
\* The rules of a chain in the order make_headers evaluates them.
ChainRules(chain) ==
    IF chain.kind = "NoopHeaders" THEN <<>>
    ELSE IF chain.kind = "EmptyMakeHeaders" THEN <<chain.make>>
    ELSE Append(ChainRules(chain.right), chain.left)

RECURSIVE SinglePhaseHeaders(_, _)
\* Each rule evaluated against the response as the rules before it have left
\* it, the way InsertHeaderMode::apply evaluates `make` against its target.
SinglePhaseHeaders(res, rules) ==
    IF rules = <<>>
    THEN <<>>
    ELSE LET h == make_full_header(Head(rules), res)
         IN  <<h>> \o SinglePhaseHeaders(ApplyHeader(res, h), Tail(rules))

\* poll in one phase: every rule is evaluated right before its mutation is
\* applied, against the response mutated so far.
poll_single_phase(this, inner) ==
    IF inner.tag = "Pending"
    THEN this
    ELSE IF inner.tag = "Err"
    THEN [this EXCEPT !.state = "Done", !.inner = inner, !.out = inner]
    ELSE LET res == inner.val
             headers == SinglePhaseHeaders(res, ChainRules(this.make))
             trace == ApplyTrace(res, headers)
         IN  [this EXCEPT !.state = "Done", !.inner = inner,
                          !.out = PollOk(trace[Len(trace)]),
                          !.make = make_headers_self(@, res),
                          !.headers = headers, !.trace = trace,
                          !.evals = @ + 1]

\* poll that evaluates the chain of another future, when one has completed,
\* instead of its own.
poll_sibling_chain(this, inner) ==
    IF inner.tag = "Pending"
    THEN this
    ELSE IF inner.tag = "Err"
    THEN [this EXCEPT !.state = "Done", !.inner = inner, !.out = inner]
    ELSE LET done == {d \in DOMAIN fut : fut[d].state = "Done"}
             chain == IF done = {} THEN this.make
                      ELSE fut[CHOOSE d \in done : TRUE].make
             res == inner.val
             headers == make_headers(chain, res)
             trace == ApplyTrace(res, headers)
         IN  [this EXCEPT !.state = "Done", !.inner = inner,
                          !.out = PollOk(trace[Len(trace)]),
                          !.make = make_headers_self(chain, res),
                          !.headers = headers, !.trace = trace,
                          !.evals = @ + 1]

\* poll that applies the headers in a state of its own, "Mutating", from
\* which the future is to be polled once more.
poll_two_step(this, inner) ==
    IF inner.tag = "Pending"
    THEN this
    ELSE IF inner.tag = "Err"
    THEN [this EXCEPT !.state = "Done", !.inner = inner, !.out = inner]
    ELSE LET res == inner.val
             headers == make_headers(this.make, res)
             trace == ApplyTrace(res, headers)
         IN  [this EXCEPT !.state = "Mutating", !.inner = inner,
                          !.make = make_headers_self(@, res),
                          !.headers = headers, !.trace = trace,
                          !.evals = @ + 1]

\* ResponseFuture::poll, given what the inner future returns to this poll.
\* `inner`, `headers`, `trace` and `evals` record what the poll did: the inner
\* result, the Vec returned by make_headers, the response before and after
\* each turn of the loop, and the number of calls of make_headers; `make` is
\* the future's chain, which make_headers evaluates in place.
poll(this, inner) ==
    IF inner.tag = "Pending"
    THEN this
    ELSE IF inner.tag = "Err"
    THEN [this EXCEPT !.state = "Done", !.inner = inner, !.out = inner]
    ELSE LET res == inner.val
             headers == make_headers(this.make, res)
             trace == ApplyTrace(res, headers)
         IN  [this EXCEPT !.state = "Done", !.inner = inner,
                          !.out = PollOk(trace[Len(trace)]),
                          !.make = make_headers_self(@, res),
                          !.headers = headers, !.trace = trace,
                          !.evals = @ + 1]

\* SetRequestHeader::new keeps `inner` and `make` only.
SetRequestHeader_new(header_name, make_, mode) == [built |-> TRUE, make |-> make_]

\* What SetRequestHeader::call hands to the inner handler.
SetRequestHeader_call(svc, req) == req

NoRequest == [received |-> FALSE, req |-> Response(<<>>, <<>>, <<>>, "none")]

\* No SetManyResponseHeadersLayer has been created.
NoLayer == [built |-> FALSE, make_headers |-> NoopHeaders, ctor |-> "new"]

\* poll_ready has not been called.
NotPolled == [polled |-> FALSE, inner |-> PollPending, ret |-> PollPending]

Init ==
    /\ make = NoopHeaders
    /\ attached = <<>>
    /\ fut = [c \in Calls |-> NoFuture]
    /\ rqSvc = [built |-> FALSE, make |-> OptionValue(None)]
    /\ rqNew = [header_name |-> CONTENT_TYPE, mode |-> Override]
    /\ rqCall = NoRequest
    /\ rqInner = NoRequest
    /\ layer = NoLayer
    /\ ready = NotPolled
    /\ rqReady = NotPolled

\* ------------------------------------------------- Response adapter actions
\* The builder operations are used at configuration time: while no
\* ResponseFuture of the adapter is alive.
Configuring == \A c \in DOMAIN fut : fut[c].state = "None"

\* What every builder operation does with its rule: the new adapter's chain
\* is rule.and(self.make).
Attach(rule) ==
    /\ make' = And(rule, make)
    /\ attached' = Append(attached, rule)
    /\ UNCHANGED <<fut, reqVars, auxVars>>

CanAttach == Configuring /\ ChainLen(make) < MaxRules

overriding ==
    \E a \in OverridingArgs :
        /\ CanAttach
        /\ Attach(ToMakeHeaders(a[1], Override, a[2]))

appending ==
    \E a \in AppendingArgs :
        /\ CanAttach
        /\ Attach(ToMakeHeaders(a[1], Append_, a[2]))

if_not_present ==
    \E a \in IfNotPresentArgs :
        /\ CanAttach
        /\ Attach(ToMakeHeaders(a[1], IfNotPresent, a[2]))

custom ==
    \E r \in CustomArgs :
        /\ CanAttach
        /\ Attach(r)

\* SetResponseHeader::call: the future holds the inner future and a clone of
\* the chain.
call ==
    \E c \in DOMAIN fut :
        /\ fut[c].state = "None"
        /\ fut' = [fut EXCEPT ![c] = ResponseFuture(make)]
        /\ UNCHANGED <<make, attached, reqVars, auxVars>>

\* The executor polls the ResponseFuture of slot c, which has not completed.
PollOf(c) ==
    \E inner \in InnerPolls :
        /\ fut[c].state = "Pending"
        /\ fut' = [fut EXCEPT ![c] = poll(@, inner)]
        /\ UNCHANGED <<make, attached, reqVars, auxVars>>

Poll == \E c \in DOMAIN fut : PollOf(c)

\* The caller takes the output of a completed future and drops it.
Drop ==
    \E c \in DOMAIN fut :
        /\ fut[c].state = "Done"
        /\ fut' = [fut EXCEPT ![c] = NoFuture]
        /\ UNCHANGED <<make, attached, reqVars, auxVars>>

Next == overriding \/ appending \/ if_not_present \/ custom \/ call \/ Poll \/ Drop

Spec == Init /\ [][Next]_vars

\* ------------------------------------------ several calls, stateful closures
\* The slots of the adapter when several calls are in flight.
ConcCalls == 1..(MaxCalls + 1)

\* (header_name, make) arguments of the builder operations: constant values,
\* a closure over the message and a counter closure.
ConcOverridingArgs == { <<CONTENT_TYPE, ConstValue("text/html")>> }
ConcAppendingArgs ==
    { <<CONTENT_LENGTH, Counter(0)>>,
      <<CONTENT_TYPE, CopyFrom(CONTENT_LENGTH)>> }
ConcIfNotPresentArgs == { <<ACCEPT_CHARSET, OptionValue("utf8")>> }

InitConcurrent ==
    /\ make = NoopHeaders
    /\ attached = <<>>
    /\ fut = [c \in ConcCalls |-> NoFuture]
    /\ rqSvc = [built |-> FALSE, make |-> OptionValue(None)]
    /\ rqNew = [header_name |-> CONTENT_TYPE, mode |-> Override]
    /\ rqCall = NoRequest
    /\ rqInner = NoRequest
    /\ layer = NoLayer
    /\ ready = NotPolled
    /\ rqReady = NotPolled

ConcCanAttach == Configuring /\ ChainLen(make) < MaxSharedRules

conc_overriding ==
    \E a \in ConcOverridingArgs :
        /\ ConcCanAttach
        /\ Attach(ToMakeHeaders(a[1], Override, a[2]))

conc_appending ==
    \E a \in ConcAppendingArgs :
        /\ ConcCanAttach
        /\ Attach(ToMakeHeaders(a[1], Append_, a[2]))

conc_if_not_present ==
    \E a \in ConcIfNotPresentArgs :
        /\ ConcCanAttach
        /\ Attach(ToMakeHeaders(a[1], IfNotPresent, a[2]))

NextConcurrent ==
    conc_overriding \/ conc_appending \/ conc_if_not_present \/ call \/ Poll \/ Drop

SpecConcurrent == InitConcurrent /\ [][NextConcurrent]_vars

\* The executor keeps polling a future that can make progress, and the inner
\* future completes at some poll.
SpecLive ==
    Init /\ [][NextConcurrent]_vars /\ \A c \in Calls : WF_vars(PollOf(c))

\* -------------------------------------------------- Request adapter actions
\* Requests given to the Request adapter.
Requests == InnerResponses
\* Value producers given to its constructors.
RequestMakes ==
    { ConstValue("text/html"), OptionValue("abc"), OptionValue(None),
      CopyFrom(CONTENT_TYPE), CopyFrom(ACCEPT_CHARSET) }

\* A constructor call: a new adapter, which has not been called yet.
Construct(header_name, make_, mode) ==
    /\ rqSvc' = SetRequestHeader_new(header_name, make_, mode)
    /\ rqNew' = [header_name |-> header_name, mode |-> mode]
    /\ rqCall' = NoRequest
    /\ rqInner' = NoRequest
    /\ UNCHANGED <<respVars, auxVars>>

SetRequestHeader_overriding ==
    \E n \in HeaderNames, m \in RequestMakes :
        /\ ~rqCall.received
        /\ Construct(n, m, Override)

SetRequestHeader_appending ==
    \E n \in HeaderNames, m \in RequestMakes :
        /\ ~rqCall.received
        /\ Construct(n, m, Append_)

SetRequestHeader_if_not_present ==
    \E n \in HeaderNames, m \in RequestMakes :
        /\ ~rqCall.received
        /\ Construct(n, m, IfNotPresent)

\* <SetRequestHeader as Service>::call
RequestCall ==
    \E req \in Requests :
        /\ rqSvc.built
        /\ rqCall' = [received |-> TRUE, req |-> req]
        /\ rqInner' = [received |-> TRUE, req |-> SetRequestHeader_call(rqSvc, req)]
        /\ UNCHANGED <<rqSvc, rqNew, respVars, auxVars>>

\* The adapter is dropped; another one may be constructed.
RequestDrop ==
    /\ rqCall.received
    /\ rqCall' = NoRequest
    /\ rqInner' = NoRequest
    /\ UNCHANGED <<rqSvc, rqNew, respVars, auxVars>>

NextRequest ==
    \/ SetRequestHeader_overriding
    \/ SetRequestHeader_appending
    \/ SetRequestHeader_if_not_present
    \/ RequestCall
    \/ RequestDrop

SpecRequest == Init /\ [][NextRequest]_vars

\* ------------------------------------------------------------- poll_ready
\* Poll::Ready(Ok(())) of the inner handler's poll_ready.
ReadyOk == PollOk([unit |-> TRUE])
\* What the inner handler's poll_ready may return.
InnerReady == {PollPending, ReadyOk} \cup {PollErr(e) : e \in InnerErrors}

\* poll_ready that reports ready whatever the inner handler says.
poll_ready_always(inner) == ReadyOk

\* <SetResponseHeader as Service>::poll_ready: self.inner.poll_ready(cx)
SetResponseHeader_poll_ready(inner) == inner

\* <SetRequestHeader as Service>::poll_ready: self.inner.poll_ready(cx)
SetRequestHeader_poll_ready(inner) == inner

response_poll_ready ==
    \E r \in InnerReady :
        /\ ready' = [polled |-> TRUE, inner |-> r,
                     ret |-> SetResponseHeader_poll_ready(r)]
        /\ UNCHANGED <<respVars, reqVars, layer, rqReady>>

request_poll_ready ==
    \E r \in InnerReady :
        /\ rqSvc.built
        /\ rqReady' = [polled |-> TRUE, inner |-> r,
                       ret |-> SetRequestHeader_poll_ready(r)]
        /\ UNCHANGED <<respVars, reqVars, layer, ready>>

NextReady ==
    \/ conc_overriding
    \/ conc_appending
    \/ conc_if_not_present
    \/ SetRequestHeader_overriding
    \/ response_poll_ready
    \/ request_poll_ready

SpecReady == Init /\ [][NextReady]_vars

\* ------------------------------------------------ counting value producers
\* (header_name, make) arguments of the builder operations where every value
\* producer is a closure that counts its calls.
CountOverridingArgs ==
    { <<CONTENT_LENGTH, Counter(0)>>,
      <<CONTENT_LENGTH, CountIfHas(ACCEPT_CHARSET, 0)>> }
CountAppendingArgs == { <<CONTENT_TYPE, Counter(0)>> }
CountIfNotPresentArgs ==
    { <<ACCEPT_CHARSET, Counter(0)>>,
      <<CONTENT_TYPE, CountIfHas(CONTENT_TYPE, 0)>> }

count_overriding ==
    \E a \in CountOverridingArgs :
        /\ ConcCanAttach
        /\ Attach(ToMakeHeaders(a[1], Override, a[2]))

count_appending ==
    \E a \in CountAppendingArgs :
        /\ ConcCanAttach
        /\ Attach(ToMakeHeaders(a[1], Append_, a[2]))

count_if_not_present ==
    \E a \in CountIfNotPresentArgs :
        /\ ConcCanAttach
        /\ Attach(ToMakeHeaders(a[1], IfNotPresent, a[2]))

NextCounting ==
    count_overriding \/ count_appending \/ count_if_not_present \/ call \/ Poll \/ Drop

SpecCounting == Init /\ [][NextCounting]_vars

\* ------------------------------------------ SetManyResponseHeadersLayer
\* SetManyResponseHeadersLayer::new
SetManyResponseHeadersLayer_new(make_) ==
    [built |-> TRUE, make_headers |-> make_, ctor |-> "new"]

\* SetManyResponseHeadersLayer::overriding / appending / if_not_present
SetManyResponseHeadersLayer_overriding(make_) == SetManyResponseHeadersLayer_new(make_)
SetManyResponseHeadersLayer_appending(make_) == SetManyResponseHeadersLayer_new(make_)
SetManyResponseHeadersLayer_if_not_present(make_) == SetManyResponseHeadersLayer_new(make_)

\* The MakeHeaders values given to the layer constructors: chains of one
\* rule, of each mode, and a chain of two.
LayerMakes ==
    { EmptyMakeHeaders(ToMakeHeaders(n, mode, ConstValue("text/html"))) :
          n \in {CONTENT_TYPE, ACCEPT_CHARSET}, mode \in InsertHeaderMode }
    \cup { And(ToMakeHeaders(CONTENT_LENGTH, Append_, ConstValue("abc")),
               EmptyMakeHeaders(ToMakeHeaders(CONTENT_TYPE, Override,
                                              ConstValue("text/html")))) }

\* A layer constructor is called; `ctor` records which one.
layer_overriding ==
    \E m \in LayerMakes :
        /\ ~layer.built
        /\ layer' = [SetManyResponseHeadersLayer_overriding(m) EXCEPT !.ctor = "overriding"]
        /\ UNCHANGED <<respVars, reqVars, ready, rqReady>>

layer_appending ==
    \E m \in LayerMakes :
        /\ ~layer.built
        /\ layer' = [SetManyResponseHeadersLayer_appending(m) EXCEPT !.ctor = "appending"]
        /\ UNCHANGED <<respVars, reqVars, ready, rqReady>>

layer_if_not_present ==
    \E m \in LayerMakes :
        /\ ~layer.built
        /\ layer' = [SetManyResponseHeadersLayer_if_not_present(m) EXCEPT !.ctor = "if_not_present"]
        /\ UNCHANGED <<respVars, reqVars, ready, rqReady>>

\* <SetManyResponseHeadersLayer as Layer>::layer: the service holds a clone of
\* the layer's make_headers.
layer_layer ==
    /\ layer.built
    /\ Configuring
    /\ make = NoopHeaders
    /\ make' = layer.make_headers
    /\ UNCHANGED <<attached, fut, reqVars, auxVars>>

\* The layer and its service are dropped.
layer_drop ==
    /\ layer.built
    /\ Configuring
    /\ make # NoopHeaders
    /\ layer' = NoLayer
    /\ make' = NoopHeaders
    /\ UNCHANGED <<attached, fut, reqVars, ready, rqReady>>

\* The service made by the layer serves calls once it is made.
layer_call == make # NoopHeaders /\ call

NextLayer ==
    \/ layer_overriding
    \/ layer_appending
    \/ layer_if_not_present
    \/ layer_layer
    \/ layer_drop
    \/ layer_call
    \/ Poll
    \/ Drop

SpecLayer == Init /\ [][NextLayer]_vars

\* ------------------------------------------------------------- properties
Last(seq) == seq[Len(seq)]
Reverse(seq) == [i \in 1..Len(seq) |-> seq[Len(seq) + 1 - i]]

\* A ResponseFuture that completed with a response.
DoneOk(c) == fut[c].state = "Done" /\ fut[c].out.tag = "Ok"
\* A ResponseFuture that completed with an error.
DoneErr(c) == fut[c].state = "Done" /\ fut[c].inner.tag = "Err"

\* The steps of the pass of future c: turn i of the loop takes the response
\* from trace[i] to trace[i + 1] with the prepared mutation headers[i].
Steps(c) == 1..Len(fut[c].headers)
Before(c, i) == fut[c].trace[i].headers
After(c, i) == fut[c].trace[i + 1].headers
\* Turn i of future c applies a mutation of the mode that has a value.
Applies(c, i, mode) ==
    fut[c].headers[i].mode = mode /\ fut[c].headers[i].value # None

RECURSIVE ApplyUpTo(_, _, _)
\* The response after the first k mutations of `headers`, one by one.
ApplyUpTo(res, headers, k) ==
    IF k = 0
    THEN res
    ELSE LET prev == ApplyUpTo(res, headers, k - 1)
             h == headers[k]
         IN  IF h.value = None THEN prev
             ELSE apply_prepared(h.mode, h.name, prev, h.value)

\* The builder calls of tests::test_composing_headers, in call order.
TestBuilderCalls ==
    << ToMakeHeaders(CONTENT_TYPE, Override, ConstValue("text/html")),
       ToMakeHeaders(CONTENT_LENGTH, Append_, ConstValue("abc")),
       ToMakeHeaders(CONTENT_TYPE, IfNotPresent, ConstValue("111")),
       TestCustom >>
\* The headers tests::test_composing_headers asserts.
TestExpected ==
    Response(<<"text/html">>, <<"555", "abc">>, <<"utf8">>, "b1").headers

\* C1: the response returned on success carries the headers obtained by
\* applying the chain's prepared mutations one by one, in the chain's output
\* order, to the inner response; the chain and the response of
\* test_composing_headers give Content-Type=[text/html],
\* Content-Length=[555, abc], Accept-Charset=[utf8].
C1_ComposedHeaders ==
    \A c \in Calls :
        DoneOk(c) =>
            LET res == fut[c].inner.val
                headers == make_headers(fut[c].make, res)
            IN  /\ fut[c].out.val = ApplyUpTo(res, headers, Len(headers))
                /\ (attached = TestBuilderCalls /\ res = TestResponse)
                       => fut[c].out.val.headers = TestExpected

C1_Witness ==
    \E c \in Calls :
        /\ DoneOk(c)
        /\ attached = TestBuilderCalls
        /\ fut[c].inner.val = TestResponse
        /\ fut[c].out.val.headers = TestExpected

\* C2: when the inner future completes with an error, the future completes
\* with that same error, the chain is not evaluated and no mutation is
\* applied.
C2_ErrorPropagated ==
    \A c \in Calls :
        DoneErr(c) =>
            /\ fut[c].out = fut[c].inner
            /\ fut[c].evals = 0
            /\ fut[c].headers = <<>>
            /\ fut[c].trace = <<>>

C2_Witness ==
    \E c \in Calls :
        /\ DoneErr(c)
        /\ fut[c].out = PollErr([error |-> "e2"])
        /\ ChainLen(fut[c].make) >= 2

\* The request the Request adapter's rule yields for the request given to
\* call: the one mutation (header_name, make(req), mode) applied to it.
RequestExpected ==
    ApplyHeader(rqCall.req,
                PreparedHeader(rqNew.header_name,
                               make_header_value(rqSvc.make, rqCall.req),
                               rqNew.mode))

\* C3: the request the Request adapter hands to its inner handler carries the
\* mutated headers.
C3_RequestMutated ==
    rqInner.received => rqInner.req = RequestExpected

\* The prepared mutations of the rules in the order they were attached.
InAttachmentOrder(res) ==
    [i \in 1..Len(attached) |-> make_full_header(attached[i], res)]

\* C4 (as claimed): the prepared mutations returned by make_headers are in the
\* reverse of the order in which the rules were attached.
C4_ReverseOrder ==
    \A c \in Calls :
        DoneOk(c) => fut[c].headers = Reverse(InAttachmentOrder(fut[c].inner.val))

\* C4 (amended): the prepared mutations returned by make_headers are in the
\* order in which the rules were attached: the first rule attached comes
\* first, the last one last.
C4_AttachmentOrder ==
    \A c \in Calls :
        DoneOk(c) => fut[c].headers = InAttachmentOrder(fut[c].inner.val)

C4_Witness ==
    \E c \in Calls :
        /\ DoneOk(c)
        /\ Len(attached) >= 3
        /\ fut[c].headers = InAttachmentOrder(fut[c].inner.val)
        /\ fut[c].headers # Reverse(fut[c].headers)

\* C5: a builder operation wraps the old chain as the tail: for every message
\* the new chain's mutations are the old chain's mutations, unchanged,
\* followed by the one mutation of the rule just attached.
C5_TailThenHead ==
    [][ make' # make =>
            \A m \in InnerResponses :
                make_headers(make', m) =
                    Append(make_headers(make, m),
                           make_full_header(Last(attached'), m)) ]_vars

C5_Witness ==
    /\ ChainLen(make) >= 2
    /\ make.left = Last(attached)
    /\ \A m \in InnerResponses :
           /\ make_headers(make.right, m) # <<>>
           /\ make_headers(make, m) =
                  Append(make_headers(make.right, m), make_full_header(make.left, m))

\* C6: an Override mutation with value v for name N leaves exactly the one
\* value v for N, whatever N had before; and N still has exactly v at the end
\* of the pass when no later mutation of the pass is for N.
C6_OverrideOneValue ==
    \A c \in Calls :
        DoneOk(c) =>
            \A i \in Steps(c) :
                Applies(c, i, Override) =>
                    LET h == fut[c].headers[i]
                    IN  /\ After(c, i)[h.name] = <<h.value>>
                        /\ (\A k \in Steps(c) : k > i => fut[c].headers[k].name # h.name)
                               => fut[c].out.val.headers[h.name] = <<h.value>>

C6_Witness ==
    \E c \in Calls :
        /\ DoneOk(c)
        /\ \E i \in Steps(c) :
               /\ Applies(c, i, Override)
               /\ Len(Before(c, i)[fut[c].headers[i].name]) >= 2
               /\ After(c, i)[fut[c].headers[i].name] = <<fut[c].headers[i].value>>
        /\ \E i \in Steps(c) :
               /\ Applies(c, i, Override)
               /\ Len(Before(c, i)[fut[c].headers[i].name]) = 0

\* C7: an Append mutation with value v for name N, where N has K values,
\* leaves K+1 values: the K previous ones in their order, then v.
C7_AppendLast ==
    \A c \in Calls :
        DoneOk(c) =>
            \A i \in Steps(c) :
                Applies(c, i, Append_) =>
                    LET h == fut[c].headers[i]
                    IN  /\ Len(After(c, i)[h.name]) = Len(Before(c, i)[h.name]) + 1
                        /\ SubSeq(After(c, i)[h.name], 1, Len(Before(c, i)[h.name]))
                               = Before(c, i)[h.name]
                        /\ Last(After(c, i)[h.name]) = h.value

C7_Witness ==
    \E c \in Calls :
        /\ DoneOk(c)
        /\ \E i \in Steps(c) :
               /\ Applies(c, i, Append_)
               /\ Len(Before(c, i)[fut[c].headers[i].name]) >= 2
               /\ Len(After(c, i)[fut[c].headers[i].name]) >= 3
        /\ \E i \in Steps(c) :
               /\ Applies(c, i, Append_)
               /\ Len(Before(c, i)[fut[c].headers[i].name]) = 0

\* C8: an IfNotPresent mutation with value v for name N makes v the only
\* value of N when N has no value at that moment, and leaves the whole
\* container unchanged when N has a value.
C8_IfNotPresent ==
    \A c \in Calls :
        DoneOk(c) =>
            \A i \in Steps(c) :
                Applies(c, i, IfNotPresent) =>
                    LET h == fut[c].headers[i]
                    IN  IF Len(Before(c, i)[h.name]) = 0
                        THEN After(c, i) = [Before(c, i) EXCEPT ![h.name] = <<h.value>>]
                        ELSE After(c, i) = Before(c, i)

C8_Witness ==
    \E c \in Calls :
        /\ DoneOk(c)
        /\ \E i \in Steps(c) :
               /\ Applies(c, i, IfNotPresent)
               /\ Len(Before(c, i)[fut[c].headers[i].name]) = 0
               /\ After(c, i)[fut[c].headers[i].name] = <<fut[c].headers[i].value>>
        /\ \E i \in Steps(c) :
               /\ Applies(c, i, IfNotPresent)
               /\ Len(Before(c, i)[fut[c].headers[i].name]) >= 1
               /\ After(c, i) = Before(c, i)

\* C9: the presence check of IfNotPresent is made against the live container:
\* once an earlier mutation of the pass has set N, a later IfNotPresent on N
\* changes nothing, and Override(N, v) followed by IfNotPresent(N, w) leaves
\* exactly v.
C9_LivePresenceCheck ==
    \A c \in Calls :
        DoneOk(c) =>
            \A i \in Steps(c), j \in Steps(c) :
                (/\ j < i
                 /\ fut[c].headers[j].name = fut[c].headers[i].name
                 /\ fut[c].headers[j].value # None
                 /\ Applies(c, i, IfNotPresent))
                    => /\ After(c, i) = Before(c, i)
                       /\ (/\ fut[c].headers[j].mode = Override
                           /\ \A k \in Steps(c) :
                                  (j < k /\ k < i) => fut[c].headers[k].name # fut[c].headers[i].name)
                              => After(c, i)[fut[c].headers[i].name] = <<fut[c].headers[j].value>>

\* N has no value on the inner response, an Override sets it, and the
\* IfNotPresent that follows finds it present.
C9_Witness ==
    \E c \in Calls :
        /\ DoneOk(c)
        /\ \E i \in Steps(c), j \in Steps(c) :
               /\ j < i
               /\ fut[c].headers[j].name = fut[c].headers[i].name
               /\ Applies(c, j, Override)
               /\ Applies(c, i, IfNotPresent)
               /\ fut[c].inner.val.headers[fut[c].headers[i].name] = <<>>
               /\ fut[c].out.val.headers[fut[c].headers[i].name] = <<fut[c].headers[j].value>>
        /\ \E i \in Steps(c), j \in Steps(c) :
               /\ j < i
               /\ fut[c].headers[j].name = fut[c].headers[i].name
               /\ Applies(c, j, Append_)
               /\ Applies(c, i, IfNotPresent)
               /\ fut[c].inner.val.headers[fut[c].headers[i].name] = <<>>

\* C10: a prepared mutation whose value is absent changes nothing, in each of
\* the three modes; an Override with no value keeps the header's values.
C10_AbsentValueSkipped ==
    \A c \in Calls :
        DoneOk(c) =>
            \A i \in Steps(c) :
                fut[c].headers[i].value = None
                    => fut[c].trace[i + 1] = fut[c].trace[i]

C10_Witness ==
    \E c \in Calls :
        /\ DoneOk(c)
        /\ \A mode \in InsertHeaderMode :
               \E i \in Steps(c) :
                   /\ fut[c].headers[i].mode = mode
                   /\ fut[c].headers[i].value = None
        /\ \E i \in Steps(c) :
               /\ fut[c].headers[i].mode = Override
               /\ fut[c].headers[i].value = None
               /\ Before(c, i)[fut[c].headers[i].name] # <<>>
               /\ After(c, i) = Before(c, i)

\* C11: a chain composed of N rules by the builder operations yields N
\* prepared mutations for every message, whether their values are present or
\* not; a custom rule is one of the N and contributes its one mutation.
C11_OneMutationPerRule ==
    /\ \A m \in InnerResponses : Len(make_headers(make, m)) = Len(attached)
    /\ \A c \in Calls : DoneOk(c) => Len(fut[c].headers) = Len(attached)

C11_Witness ==
    \E c \in Calls :
        /\ DoneOk(c)
        /\ Len(attached) >= 3
        /\ Len(fut[c].headers) = Len(attached)
        /\ \E i \in Steps(c) : fut[c].headers[i].value = None
        /\ \E i \in Steps(c) : attached[i].kind = "Fn"

\* C12: the future goes Pending -> Done. A poll that finds the inner future
\* pending leaves the future as it is, with the chain not evaluated and no
\* header touched; the chain is evaluated once, in the poll in which the
\* inner future completes with a response; a failure completes the future
\* with no evaluation.
C12_StateMachine ==
    [][ \A c \in Calls :
          /\ fut[c].state = "None" => fut'[c].state \in {"None", "Pending"}
          /\ fut[c].state = "Pending" =>
                /\ poll(fut[c], PollPending) = fut[c]
                /\ fut[c].evals = 0
                /\ fut[c].headers = <<>>
                /\ fut[c].trace = <<>>
                /\ fut'[c].state \in {"Pending", "Done"}
                /\ fut'[c].state = "Pending" => fut'[c] = fut[c]
                /\ fut'[c].state = "Done" =>
                      IF fut'[c].inner.tag = "Ok"
                      THEN /\ fut'[c].evals = 1
                           /\ fut'[c].out.tag = "Ok"
                           /\ Len(fut'[c].trace) = Len(fut'[c].headers) + 1
                      ELSE /\ fut'[c].evals = 0
                           /\ fut'[c].out = fut'[c].inner
                           /\ fut'[c].trace = <<>>
          /\ fut[c].state = "Done" =>
                /\ fut[c].evals <= 1
                /\ fut'[c] = fut[c] \/ fut'[c].state = "None" ]_vars

C12_Witness ==
    \E c \in Calls :
        /\ DoneOk(c)
        /\ fut[c].evals = 1
        /\ Len(fut[c].trace) >= 3
        /\ fut[c].out.val # fut[c].inner.val

\* C16: the empty chain is the identity: it yields no mutation, so an adapter
\* with no builder call returns the inner response as it is; and a rule
\* composed with the empty chain yields exactly that rule's one mutation.
C16_EmptyChainIdentity ==
    /\ make = NoopHeaders => \A m \in InnerResponses : make_headers(make, m) = <<>>
    /\ \A c \in Calls :
           DoneOk(c) =>
               /\ attached = <<>> =>
                      /\ fut[c].headers = <<>>
                      /\ fut[c].out.val = fut[c].inner.val
               /\ Len(attached) = 1 =>
                      fut[c].headers = <<make_full_header(attached[1], fut[c].inner.val)>>

C16_Witness ==
    \E c \in Calls :
        /\ DoneOk(c)
        /\ attached = <<>>
        /\ fut[c].make = NoopHeaders
        /\ fut[c].inner.val = TestResponse
        /\ fut[c].out.val = TestResponse

\* C19: evaluation is two-phase: every rule, custom ones too, is evaluated
\* against the response as the inner handler produced it, before the first
\* mutation is applied; the mutation of a rule does not depend on what the
\* other rules of the pass do to the response.
C19_TwoPhase ==
    \A c \in Calls :
        DoneOk(c) =>
            /\ fut[c].trace[1] = fut[c].inner.val
            /\ \A i \in Steps(c) :
                   fut[c].headers[i] = make_full_header(attached[i], fut[c].trace[1])

\* A rule whose mutation would differ had it been evaluated against the
\* response as the earlier mutations left it.
C19_Witness ==
    \E c \in Calls :
        /\ DoneOk(c)
        /\ \E i \in Steps(c) :
               /\ fut[c].headers[i] = make_full_header(attached[i], fut[c].inner.val)
               /\ fut[c].headers[i] # make_full_header(attached[i], fut[c].trace[i])

RECURSIVE Compose(_, _)
\* The chain the builder operations compose of the first k rules.
Compose(rules, k) ==
    IF k = 0 THEN NoopHeaders ELSE And(rules[k], Compose(rules, k - 1))

\* The response a message processed alone gets: the mutations of the rules as
\* they were attached, applied one by one to its inner response.
Alone(res) == ApplyUpTo(res, InAttachmentOrder(res), Len(attached))

\* C13: with several messages in flight, polled in any interleaving, each
\* future has its own prepared mutations and mutates its own response only:
\* each returned response is the one the message gets when processed alone.
C13_Isolated ==
    \A c \in DOMAIN fut :
        DoneOk(c) =>
            /\ fut[c].headers = InAttachmentOrder(fut[c].inner.val)
            /\ fut[c].out.val = Alone(fut[c].inner.val)

C13_Witness ==
    \E c1 \in DOMAIN fut, c2 \in DOMAIN fut :
        /\ c1 # c2
        /\ DoneOk(c1) /\ DoneOk(c2)
        /\ fut[c1].inner.val # fut[c2].inner.val
        /\ fut[c1].out.val # fut[c1].inner.val
        /\ fut[c2].out.val = Alone(fut[c2].inner.val)
        /\ \E i \in 1..Len(attached) : attached[i].make.type = "Counter"

\* A chain all of whose producers are stateless: constants, constant options
\* and closures that only read the message.
Stateless(chain) ==
    \A i \in 1..Len(ChainRules(chain)) :
        ChainRules(chain)[i].make.type \in {"HeaderValue", "Option", "FnMut"}

\* C14: with stateless producers, the chain evaluated a second time against
\* the same unmodified message returns the same prepared mutations as the
\* first time: the same names, values and modes in the same order.
C14_SameTwice ==
    \A c \in DOMAIN fut :
        (DoneOk(c) /\ Stateless(make)) =>
            make_headers(fut[c].make, fut[c].inner.val) = fut[c].headers

C14_Witness ==
    \E c \in DOMAIN fut :
        /\ DoneOk(c)
        /\ Stateless(make)
        /\ Len(fut[c].headers) >= 2
        /\ \E i \in Steps(c) :
               attached[i].make.type = "Option" /\ fut[c].headers[i].value # None
        /\ \E i \in Steps(c) :
               attached[i].make.type = "FnMut" /\ fut[c].headers[i].value # None
        /\ make_headers(fut[c].make, fut[c].inner.val) = fut[c].headers

\* C18: a future whose inner future completes and that keeps being polled
\* completes, and it completes in the poll in which the inner future
\* completes: evaluating and applying the headers is no suspension point.
C18_Completes ==
    /\ \A c \in Calls : (fut[c].state = "Pending") ~> (fut[c].state = "Done")
    /\ [][ \A c \in Calls :
             (fut[c].state = "Pending" /\ fut'[c] # fut[c])
                 => (fut'[c].state = "Done" /\ fut'[c].inner.tag # "Pending") ]_vars

C18_Witness ==
    \E c \in Calls :
        /\ fut[c].state = "Done"
        /\ fut[c].out.tag = "Ok"
        /\ fut[c].inner.tag = "Ok"
        /\ ChainLen(fut[c].make) >= 2
        /\ fut[c].evals = 1

\* C20: processing a message never changes the adapter's chain: each call
\* evaluates a clone taken at call time, and what evaluation does to a
\* producer's state stays in that clone. A stateful producer starts from the
\* same state for every message, and two calls with the same inner response
\* return the same headers.
C20_ChainUntouched ==
    /\ make = Compose(attached, Len(attached))
    /\ \A c \in DOMAIN fut :
           /\ fut[c].state = "Pending" => fut[c].make = make
           /\ DoneOk(c) => fut[c].make = make_headers_self(make, fut[c].inner.val)
    /\ \A c1 \in DOMAIN fut, c2 \in DOMAIN fut :
           (DoneOk(c1) /\ DoneOk(c2) /\ fut[c1].inner.val = fut[c2].inner.val)
               => fut[c1].out.val.headers = fut[c2].out.val.headers

C20_Witness ==
    \E c1 \in DOMAIN fut, c2 \in DOMAIN fut :
        /\ c1 # c2
        /\ DoneOk(c1) /\ DoneOk(c2)
        /\ fut[c1].inner.val = fut[c2].inner.val
        /\ fut[c1].out.val.headers = fut[c2].out.val.headers
        /\ fut[c1].make # make
        /\ \E i \in Steps(c1) :
               attached[i].make.type = "Counter" /\ fut[c1].headers[i].value = "0"

\* C15: poll_ready of both adapters returns what the inner handler's
\* poll_ready returns, pending, ready or error, and it evaluates no rule and
\* changes no chain, future or request.
C15_ReadinessPreserved ==
    [][ /\ ready'.polled => ready'.ret = ready'.inner
        /\ rqReady'.polled => rqReady'.ret = rqReady'.inner
        /\ (ready' # ready \/ rqReady' # rqReady)
               => UNCHANGED <<make, attached, fut, rqSvc, rqNew, rqCall, rqInner>> ]_vars

C15_Witness ==
    /\ ChainLen(make) >= 1
    /\ ready.polled
    /\ ready.inner = PollPending
    /\ ready.ret = PollPending
    /\ rqSvc.built
    /\ rqReady.polled
    /\ rqReady.inner = PollErr([error |-> "e2"])
    /\ rqReady.ret = rqReady.inner

\* C17: the layer constructors select the insertion behaviour: the service of
\* a layer made with overriding(make) replaces the previous values of a header
\* it sets, one made with appending(make) adds the value after the existing
\* ones, one made with if_not_present(make) leaves a header that has a value
\* as it is.
C17_LayerModes ==
    \A c \in Calls :
        (DoneOk(c) /\ layer.built) =>
            \A i \in Steps(c) :
                fut[c].headers[i].value # None =>
                    LET h == fut[c].headers[i]
                    IN  /\ layer.ctor = "overriding"
                               => After(c, i)[h.name] = <<h.value>>
                        /\ layer.ctor = "appending"
                               => After(c, i)[h.name] = Append(Before(c, i)[h.name], h.value)
                        /\ (layer.ctor = "if_not_present" /\ Before(c, i)[h.name] # <<>>)
                               => After(c, i) = Before(c, i)

\* C21: on a successfully completed response the value producer of every
\* rule of the chain has been called exactly once, whatever the rule's mode
\* and whether or not its header was present (the value of an IfNotPresent
\* rule whose header is present is produced and then discarded); while the
\* inner future is pending, and when it failed, no producer has been called.
\* Every producer here counts its calls, and `make` is the chain the future
\* cloned at the call.
C21_ProducersOnce ==
    \A c \in Calls :
        LET before == ChainRules(make)
            after == ChainRules(fut[c].make)
        IN  /\ DoneOk(c) =>
                /\ Len(after) = Len(before)
                /\ Len(fut[c].headers) = Len(before)
                /\ \A i \in 1..Len(before) :
                       /\ after[i].make.count = before[i].make.count + 1
                       /\ fut[c].headers[i].value
                              \in {None, ToString(before[i].make.count)}
                       /\ (Applies(c, i, IfNotPresent)
                           /\ Before(c, i)[before[i].header_name] # <<>>)
                              => After(c, i) = Before(c, i)
            /\ (fut[c].state = "Pending" \/ DoneErr(c)) => fut[c].make = make

C21_Witness ==
    \E c \in Calls :
        /\ DoneOk(c)
        /\ ChainLen(make) >= 2
        /\ \E i \in Steps(c) :
               /\ Applies(c, i, IfNotPresent)
               /\ fut[c].inner.val.headers[fut[c].headers[i].name] # <<>>
               /\ fut[c].headers[i].value # None
               /\ After(c, i) = Before(c, i)
               /\ ChainRules(fut[c].make)[i].make.count = 1
        /\ \E i \in Steps(c) : fut[c].headers[i].value = None

\* Future c's pass has a prepared mutation with a value for header n.
Mutates(c, n) ==
    \E i \in Steps(c) : fut[c].headers[i].name = n /\ fut[c].headers[i].value # None

\* C22: frame. After a full pass every header name that is not the name of a
\* prepared mutation with a value has exactly the values, in the same order,
\* of the inner handler's response; and no turn of the pass, nor the pass as
\* a whole, leaves a header with fewer values than it had, except by an
\* Override with a value on that same name.
C22_Frame ==
    \A c \in Calls :
        DoneOk(c) =>
            LET orig == fut[c].inner.val.headers
                final == fut[c].out.val.headers
            IN  \A n \in HeaderNames :
                    /\ ~Mutates(c, n) => final[n] = orig[n]
                    /\ Len(final[n]) < Len(orig[n]) =>
                           \E i \in Steps(c) :
                               fut[c].headers[i].name = n /\ Applies(c, i, Override)
                    /\ \A i \in Steps(c) :
                           Len(After(c, i)[n]) < Len(Before(c, i)[n]) =>
                               fut[c].headers[i].name = n /\ Applies(c, i, Override)

C22_Witness ==
    \E c \in Calls :
        /\ DoneOk(c)
        /\ \E n \in HeaderNames :
               /\ ~Mutates(c, n)
               /\ fut[c].inner.val.headers[n] # <<>>
               /\ fut[c].out.val.headers[n] = fut[c].inner.val.headers[n]
        /\ \E n \in HeaderNames :
               /\ ~Mutates(c, n)
               /\ \E i \in Steps(c) : fut[c].headers[i].name = n
        /\ \E n \in HeaderNames :
               Len(fut[c].out.val.headers[n]) < Len(fut[c].inner.val.headers[n])

====
